---- MODULE Spec2Model ----
(***************************************************************************)
(* A model of gogram's session engine (MTProto: makeRequest, Reconnect,    *)
(* the receive loop started by startReadingResponses, processResponse)     *)
(* and of the exported-sender pool of telegram.Client.                     *)
(***************************************************************************)
EXTENDS Integers, Sequences, FiniteSets, TLC

\* ------------------------------------------------------------------ bounds
\* contexts (= transports, = receive loops) ever created on the session
MaxCtx == 3
\* packets a caller's makeRequest may hand to sendPacket
MaxSends == 3
\* what the network and the server do beyond answering a request with a result
\* or an error: failed writes, reads and connects, BadServerSalt,
\* BadMsgNotification, FLOOD_WAIT replies
MaxEvents == 2
\* calls of BorrowExportedSenders
MaxBorrows == 2
\* the greatest count a borrow is called with that the code accepts
MaxCount == 2

\* creations by CreateExportedSender
MaxCreates == 2

\* runs of cleanExportedSenders, calls of AddNewExportedSenderToMap
MaxCleans == 1
MaxAdds == 1

\* imports, salt notifications, exports and migrations of the sessions
MaxStoreOps == 3

\* calls of Disconnect and of Terminate by the user of the session
MaxStops == 1

\* the items of a MessageContainer
MaxItems == 2

\* objects the loop decodes while service mode is active
MaxObjs == 3

\* calls of CreateConnection on one session
MaxConnects == 3

\* packets the receive loop reads, items of a container
MaxReads == 2
MaxAckItems == 2

\* the goroutines that call makeRequest (numbered apart from the contexts, so
\* that callers and loops index the same functions)
Callers == {101}
\* a context, the transport built under it and the loop reading under it
\* share one number
Ctxs == 1 .. MaxCtx
Procs == Callers \cup Ctxs
\* the goroutines that call Client.Idle
IdleCallers == {1, 2}
\* the seconds a FLOOD_WAIT_N advertises
FloodSecs == {3, 5}
\* the salts a BadServerSalt carries
Salts == {7}

NoKey == 0
NoCtx == 0
\* a nil *Client
NilSender == 0
\* startReadingResponses, line 392: the transport error code the source
\* writes as 4294966892, which is -404 in 32 bits, written here as signed
AuthKeyExpired == -404
\* BorrowExportedSenders, line 435: if countInt > 10
CountLimit == 10
\* the counts a borrow is called with
Counts == (0 .. MaxCount) \cup {CountLimit + 1}
Workers == 1 .. MaxCount

\* ------------------------------------------------------------------ values
\* what a mailbox can be handed
RpcOk == [kind |-> "result", msg |-> "", info |-> 0]
RpcErr(m, n) == [kind |-> "rpcerr", msg |-> m, info |-> n]
Sentinel == [kind |-> "errorSessionConfigsChanged", msg |-> "", info |-> 0]
NoVal == [kind |-> "none", msg |-> "", info |-> 0]
\* what makeRequest returns with a nil error when its mailbox gave it nil
NilVal == [kind |-> "nil", msg |-> "", info |-> 0]
FloodVals == {RpcErr("FLOOD_WAIT_", n) : n \in FloodSecs}
PlainVals == {RpcOk, RpcErr("PHONE_NUMBER_INVALID", 0)}

VARIABLES
    \* MTProto fields
    stopRoutines,       \* the context the stored cancel function cancels
    isConnected,
    transport,          \* m.transport: the context it was built under, 0 = nil
    serverSalt,
    responseChannels,   \* the keys (msg_ids) with a registered mailbox
    lastMessageID,
    mutex,              \* m.mutex: the loop holding it, 0 = free
    \* contexts
    cancelled,          \* contexts whose cancel function has been called
    nextCtx,
    \* goroutines
    pc,                 \* Procs -> where each caller, each loop is
    ret,                \* Procs -> where Reconnect's caller continues
    ctxOf,              \* Procs -> the ctx CreateConnection made for it
    mb,                 \* Callers -> the msg_id of the mailbox it awaits
    target,             \* Ctxs -> the mailbox send a loop is blocked in
    bq,                 \* Ctxs -> keys left in the BadServerSalt broadcast
    result,             \* Callers -> what makeRequest returned
    slept,              \* Callers -> seconds spent in time.Sleep
    \* the network and the server
    written,            \* <<msg_id, transport>> of every packet written
    answered,           \* msg_ids the server has answered
    events,
    \* history
    hist,               \* Callers -> the events of its makeRequest, in order
    fault,              \* the last fault a receive loop met, and who waited
    \* Client.exportedSenders, for one datacenter, and BorrowExportedSenders
    senders,            \* c.exportedSenders.senders[dcID]
    returned,           \* the local slice the borrow returns
    countInt,
    borrowErr,          \* the error the borrow returns, "" = nil
    bpc,                \* where the borrow is
    wk,                 \* Workers -> the goroutines of the empty-pool branch
    nextSender,         \* the next handle CreateExportedSender makes
    borrows,            \* calls so far
    authLog,            \* what this call did about "authorization invalid"
    \* Client.CreateExportedSender
    cs,                 \* the creation in progress
    made,               \* what the creations so far returned
    \* Client.cleanExportedSenders, AddNewExportedSenderToMap
    cleanPc,            \* where cleanExportedSenders is
    cleanSnap,          \* the senders the pool held when it took the lock
    terminated,         \* the senders Terminate was called on
    cleans,             \* runs so far
    adds,               \* calls of AddNewExportedSenderToMap so far
    \* sessions and the backing store
    prim,               \* the primary session
    xs,                 \* a session made by ExportNewSender
    store,              \* the hostname of the persisted session, 0 = none
    mig,                \* the ReconnectToNewDC in progress
    memWrites,          \* SaveSession calls by memory-only sessions and
                        \* by sessions derived from them
    storeOps,           \* imports, notifications, migrations so far
    \* Terminate and Disconnect called on the session
    closedCh,           \* the mailboxes responseChannels.Close() closed
    stops,              \* calls of Disconnect and of Terminate so far
    termWaiting,        \* the callers that waited when Terminate was called
    \* salt notifications and containers
    notified,           \* the salts of the last two notifications dispatched
    rest,               \* Ctxs -> the items left of the container a loop is in
    \* Client.Idle, Stop, Terminate
    stopCh,             \* c.stopCh is closed
    wg,                 \* the counter of c.wg
    idlePc,             \* IdleCallers -> where its call of Idle is
    waiter,             \* IdleCallers -> the goroutine of line 619
    sig,                \* IdleCallers -> the goroutine of lines 613-618
    calls,              \* which of Stop and Terminate have been called
    crashed,            \* a panic has ended the process
    \* what the receive loop read and where it went
    codeLog,            \* how the loop handled each transport error code
    unknownLog,         \* how it handled each RpcResult without a mailbox
    offered,            \* the objects offered to the serverRequestHandlers
    serviceModeActivated,
    serviceChannel,     \* the objects the handshake driver has received
    arrived,            \* the objects decoded in service mode, in order
    svcObj,             \* Ctxs -> the object a loop is handing over
    \* a session's auth key and its connections
    kpc,                \* "none", then "made" once NewMTProto returned it
    authKey,            \* what set m.authKey, "none" = no key
    encrypted,          \* m.encrypted
    kConnected,         \* m.isConnected
    kLoop,              \* a reader of this session is alive
    created,            \* what the last CreateConnection returned, and how
                        \* it left the session
    imported,           \* what the last import returned
    handshakes,         \* the keys held when a handshake was run
    connects,           \* calls of CreateConnection so far
    \* acknowledgements
    reads,              \* packets processResponse was called with so far
    inbound,            \* the messages of the last packet, items included
    acked,              \* the msg_ids a MsgsAck was sent for
    readErr             \* the error processResponse returned for it

poolVars == <<senders, returned, countInt, borrowErr, bpc, wk, nextSender,
              borrows, authLog>>

sessionVars == <<stopRoutines, isConnected, transport, serverSalt,
                 responseChannels, lastMessageID, mutex, cancelled, nextCtx,
                 pc, ret, ctxOf, mb, target, bq, result, slept, written,
                 answered, events, hist, fault>>

senderVars == <<cs, made>>

\* what the actions of the session engine leave alone, and those of the pool
cleanVars == <<cleanPc, cleanSnap, terminated, cleans, adds>>

storeVars == <<prim, xs, store, mig, memWrites, storeOps>>

loopVars == <<closedCh, stops, termWaiting>>

saltVars == <<notified, rest>>

idleVars == <<stopCh, wg, idlePc, waiter, sig, calls, crashed>>

recvVars == <<codeLog, unknownLog, offered, serviceModeActivated,
              serviceChannel, arrived, svcObj>>

keyVars == <<kpc, authKey, encrypted, kConnected, kLoop, created, imported,
            handshakes, connects>>

ackVars == <<reads, inbound, acked, readErr>>

lateVars == <<keyVars, ackVars>>

offLoop == <<poolVars, senderVars, cleanVars, storeVars, saltVars, idleVars,
             recvVars, lateVars>>
offSalt == <<poolVars, senderVars, cleanVars, storeVars, loopVars, idleVars,
             recvVars, lateVars>>
offRecv == <<poolVars, senderVars, cleanVars, storeVars, loopVars, idleVars,
             saltVars, lateVars>>
offSession == <<offSalt, saltVars>>
offPool == <<sessionVars, senderVars, cleanVars, storeVars, loopVars, saltVars,
             idleVars, recvVars, lateVars>>
offSender == <<sessionVars, poolVars, cleanVars, storeVars, loopVars, saltVars,
               idleVars, recvVars, lateVars>>
offClean == <<sessionVars, senderVars, storeVars, loopVars, saltVars, idleVars,
              recvVars, lateVars>>
offStore == <<sessionVars, poolVars, senderVars, cleanVars, loopVars, saltVars,
              idleVars, recvVars, lateVars>>
offIdle == <<poolVars, senderVars, storeVars, saltVars, recvVars, lateVars>>

vars == <<sessionVars, poolVars, senderVars, cleanVars, storeVars, loopVars,
          saltVars, idleVars, recvVars, lateVars>>

\* what the steps of a session's key and connection leave alone
earlyVars == <<sessionVars, poolVars, senderVars, cleanVars, storeVars,
               loopVars, saltVars, idleVars, recvVars>>
offKey == <<earlyVars, ackVars>>
\* and the acknowledging of what was read
offAck == <<earlyVars, keyVars>>

NoTarget == [key |-> NoKey, val |-> NoVal]
\* an object as the loop decodes it in service mode
Obj(kind, k, s) == [kind |-> kind, key |-> k, salt |-> s]
NoObj == Obj("none", NoKey, 0)
NoFault == [kind |-> "none", keys |-> {}, by |-> NoCtx, recovered |-> FALSE]
NoWorker == [pc |-> "none", sender |-> NilSender, snap |-> <<>>]
NoSess == [live |-> FALSE, addr |-> 0, mem |-> FALSE, memCfg |-> FALSE,
           stopped |-> FALSE]
NoMig == [pc |-> "idle", dc |-> 0, err |-> "", deleted |-> FALSE,
          cand |-> NoSess]
NoCreated == [called |-> FALSE, err |-> "", connected |-> FALSE, loop |-> FALSE]
NoImport == [by |-> "none", ok |-> FALSE, err |-> ""]
NoCreate == [pc |-> "idle", dc |-> 0, exported |-> FALSE, imported |-> FALSE,
             shareErr |-> "", err |-> ""]

Init ==
    /\ stopRoutines = NoCtx
    /\ isConnected = FALSE
    /\ transport = NoCtx
    /\ serverSalt = 0
    /\ responseChannels = {}
    /\ lastMessageID = 0
    /\ mutex = 0
    /\ cancelled = {}
    /\ nextCtx = 1
    /\ pc = [p \in Procs |-> IF p \in Callers THEN "idle" ELSE "none"]
    /\ ret = [p \in Procs |-> "none"]
    /\ ctxOf = [p \in Procs |-> NoCtx]
    /\ mb = [c \in Callers |-> NoKey]
    /\ target = [l \in Ctxs |-> NoTarget]
    /\ bq = [l \in Ctxs |-> {}]
    /\ result = [c \in Callers |-> NoVal]
    /\ slept = [c \in Callers |-> 0]
    /\ written = {}
    /\ answered = {}
    /\ events = 0
    /\ hist = [c \in Callers |-> <<>>]
    /\ fault = NoFault
    /\ senders = <<>>
    /\ returned = <<>>
    /\ countInt = 0
    /\ borrowErr = ""
    /\ bpc = "idle"
    /\ wk = [i \in Workers |-> NoWorker]
    /\ nextSender = 1
    /\ borrows = 0
    /\ authLog = {}
    /\ cs = NoCreate
    /\ made = <<>>
    /\ cleanPc = "none"
    /\ cleanSnap = {}
    /\ terminated = {}
    /\ cleans = 0
    /\ adds = 0
    /\ prim = NoSess
    /\ xs = NoSess
    /\ store = 0
    /\ mig = NoMig
    /\ memWrites = {}
    /\ storeOps = 0
    /\ closedCh = {}
    /\ stops = 0
    /\ termWaiting = {}
    /\ notified = <<>>
    /\ rest = [l \in Ctxs |-> <<>>]
    /\ stopCh = FALSE
    /\ wg = 0
    /\ idlePc = [i \in IdleCallers |-> "none"]
    /\ waiter = [i \in IdleCallers |-> "none"]
    /\ sig = [i \in IdleCallers |-> "none"]
    /\ calls = {}
    /\ crashed = FALSE
    /\ codeLog = {}
    /\ unknownLog = {}
    /\ offered = {}
    /\ serviceModeActivated = FALSE
    /\ serviceChannel = <<>>
    /\ arrived = <<>>
    /\ svcObj = [l \in Ctxs |-> NoObj]
    /\ kpc = "none"
    /\ authKey = "none"
    /\ encrypted = FALSE
    /\ kConnected = FALSE
    /\ kLoop = FALSE
    /\ created = NoCreated
    /\ imported = NoImport
    /\ handshakes = {}
    /\ connects = 0
    /\ reads = 0
    /\ inbound = {}
    /\ acked = {}
    /\ readErr = ""

\* ------------------------------------------------------------------ helpers
Last(s) == s[Len(s)]

\* the record of the notifications dispatched, after one that carries s
Noted(note, s) == IF note = <<>> THEN <<s>> ELSE <<Last(note), s>>

Event(e, k, v) == [ev |-> e, key |-> k, val |-> v]

Log(c, e) == [hist EXCEPT ![c] = Append(@, e)]

\* the packets caller c has handed to sendPacket
NSends(c) == Len(SelectSeq(hist[c], LAMBDA e : e.ev \in {"send", "wfail"}))

\* a transport is closed once its context is cancelled (closeOnCancel)
Closed(t) == t \in cancelled

ErrVal(m) == [kind |-> "error", msg |-> m, info |-> 0]

\* the errors transport.WriteMsg is modelled to give
ClosedErr == "use of closed network connection"
OtherWriteErr == "i/o timeout"

\* makeRequest, line 282: the write errors that make it reconnect and retry
IsPipeBroken(err) ==
    err \in {"use of closed network connection", "transport is closed"}

\* makeRequest, line 297: strings.Contains(realErr.Message, "FLOOD_WAIT_")
IsFloodWait(v) == v.kind = "rpcerr" /\ v.msg = "FLOOD_WAIT_"

\* a variant of AfterResponse that sleeps and retries on every RPC error; C6
\* tells the two apart
AfterResponse_RetriesEveryRpcError(v) ==
    IF v.kind = "rpcerr" THEN "sleep"
    ELSE IF v.kind = "errorSessionConfigsChanged" THEN "send" ELSE "done"

\* makeRequest, lines 293-308: where the caller goes with the value its
\* mailbox gave it
AfterResponse(v) ==
    IF v.kind = "rpcerr"
    THEN IF IsFloodWait(v) THEN "sleep" ELSE "done"
    ELSE IF v.kind = "errorSessionConfigsChanged" THEN "send" ELSE "done"

\* a variant of SleepSeconds that retries at once; C7 tells the two apart
SleepSeconds_Zero(v) == 0

\* makeRequest, line 299: the seconds it sleeps on a floodwait
SleepSeconds(v) == v.info

\* ------------------------------------------------------------------ connect
\* Client.Connect: the first CreateConnection of the session
Connect ==
    /\ stopRoutines = NoCtx
    /\ nextCtx = 1
    /\ stopRoutines' = 1
    /\ nextCtx' = 2
    /\ transport' = 1
    /\ isConnected' = TRUE
    /\ pc' = [pc EXCEPT ![1] = "top"]
    /\ UNCHANGED <<serverSalt, responseChannels, lastMessageID, mutex,
                   cancelled, ret, ctxOf, mb, target, bq, result, slept,
                   written, answered, events, hist, fault>>
    /\ UNCHANGED offSession

\* ------------------------------------------------------------------ Reconnect
\* Disconnect: m.stopRoutines(); m.isConnected = false
RcDisconnect(p) ==
    /\ pc[p] = "rc_disc"
    /\ cancelled' = cancelled \cup {stopRoutines}
    /\ isConnected' = FALSE
    /\ pc' = [pc EXCEPT ![p] = "rc_ctx"]
    /\ hist' = IF p \in Callers
               THEN Log(p, Event("reconnect", NoKey, NoVal))
               ELSE hist
    /\ UNCHANGED <<stopRoutines, transport, serverSalt, responseChannels,
                   lastMessageID, mutex, nextCtx, ret, ctxOf, mb, target, bq,
                   result, slept, written, answered, events, fault>>
    /\ UNCHANGED offSession

\* CreateConnection, lines 235-236: a new context, its cancel stored
RcNewCtx(p) ==
    /\ pc[p] = "rc_ctx"
    /\ nextCtx <= MaxCtx
    /\ ctxOf' = [ctxOf EXCEPT ![p] = nextCtx]
    /\ stopRoutines' = nextCtx
    /\ nextCtx' = nextCtx + 1
    /\ pc' = [pc EXCEPT ![p] = "rc_conn"]
    /\ UNCHANGED <<isConnected, transport, serverSalt, responseChannels,
                   lastMessageID, mutex, cancelled, ret, mb, target, bq,
                   result, slept, written, answered, events, hist, fault>>
    /\ UNCHANGED offSession

\* startReadingResponses, lines 370-372: a loop that comes back to its select
\* with its context already cancelled returns
AtSelect(l, nowCancelled) == IF l \in nowCancelled THEN "exit" ELSE "top"

\* where Reconnect's caller goes when Reconnect returned err
AfterReconnect(p, failed) ==
    IF p \in Callers
    THEN IF failed THEN "done" ELSE ret[p]
    ELSE IF ret[p] = "top" THEN AtSelect(p, cancelled) ELSE ret[p]

\* CreateConnection, lines 240-248, then Reconnect's ping and return
RcConnect(p, failed) ==
    /\ pc[p] = "rc_conn"
    /\ IF failed
       THEN /\ events < MaxEvents \/ Closed(ctxOf[p])
            /\ events' = IF Closed(ctxOf[p]) THEN events ELSE events + 1
            /\ transport' = NoCtx
            /\ UNCHANGED isConnected
            /\ pc' = [pc EXCEPT ![p] = AfterReconnect(p, TRUE)]
       ELSE /\ transport' = ctxOf[p]
            /\ isConnected' = TRUE
            /\ pc' = [pc EXCEPT ![p] = AfterReconnect(p, FALSE),
                                ![ctxOf[p]] = AtSelect(ctxOf[p], cancelled)]
            /\ UNCHANGED events
    /\ lastMessageID' = lastMessageID + 1
    /\ result' = IF p \in Callers /\ failed
                 THEN [result EXCEPT ![p] = ErrVal("reconnecting")]
                 ELSE result
    /\ UNCHANGED <<stopRoutines, serverSalt, responseChannels, mutex,
                   cancelled, nextCtx, ret, ctxOf, mb, target, bq, slept,
                   written, answered, hist>>
    /\ fault' = IF ~failed /\ fault.by = p
                THEN [fault EXCEPT !.recovered = TRUE] ELSE fault
    /\ UNCHANGED offSession

\* ------------------------------------------------------------------ makeRequest
\* sendPacket: a new msg_id, a mailbox registered under it, the write; a
\* request whose write failed keeps no mailbox
SendPacket(c, err) ==
    LET k == lastMessageID + 1 IN
    /\ pc[c] \in {"idle", "send"}
    /\ stopRoutines # NoCtx
    /\ NSends(c) < MaxSends
    /\ lastMessageID' = k
    /\ IF err = ""
       THEN /\ transport # NoCtx /\ ~Closed(transport)
            /\ responseChannels' = responseChannels \cup {k}
            /\ mb' = [mb EXCEPT ![c] = k]
            /\ written' = written \cup {<<k, transport>>}
            /\ pc' = [pc EXCEPT ![c] = "await"]
            /\ hist' = Log(c, Event("send", k, NoVal))
            /\ UNCHANGED <<events, ret, result>>
       ELSE /\ IF transport = NoCtx \/ Closed(transport)
               THEN err = ClosedErr /\ UNCHANGED events
               ELSE events < MaxEvents /\ events' = events + 1
            /\ hist' = Log(c, Event("wfail", k, ErrVal(err)))
            /\ UNCHANGED <<written, responseChannels, mb>>
            /\ IF IsPipeBroken(err)
               THEN /\ pc' = [pc EXCEPT ![c] = "rc_disc"]
                    /\ ret' = [ret EXCEPT ![c] = "send"]
                    /\ UNCHANGED result
               ELSE /\ pc' = [pc EXCEPT ![c] = "done"]
                    /\ result' = [result EXCEPT ![c] = ErrVal("sending packet")]
                    /\ UNCHANGED ret
    /\ UNCHANGED <<stopRoutines, isConnected, transport, serverSalt, mutex,
                   cancelled, nextCtx, ctxOf, target, bq, slept, answered, fault>>
    /\ UNCHANGED offSession

\* response := <-resp and the switch on it: the caller takes value v
Receive(c, v) ==
    [pc EXCEPT ![c] = AfterResponse(v)]

\* time.Sleep(AdditionalInfo seconds), then makeRequest again
Sleep(c) ==
    /\ pc[c] = "sleep"
    /\ slept' = [slept EXCEPT ![c] = @ + SleepSeconds(Last(hist[c]).val)]
    /\ pc' = [pc EXCEPT ![c] = "send"]
    /\ UNCHANGED <<stopRoutines, isConnected, transport, serverSalt,
                   responseChannels, lastMessageID, mutex, cancelled, nextCtx,
                   ret, ctxOf, mb, target, bq, result, written, answered,
                   events, hist, fault>>
    /\ UNCHANGED offSession

\* ------------------------------------------------------------------ receive loop
\* the mailboxes a caller is blocked on
Awaited == {mb[c] : c \in {d \in Callers : pc[d] = "await"}}

\* startReadingResponses, lines 370-377, and readMsg giving context.Canceled
LoopExit(l) ==
    /\ pc[l] = "top"
    /\ \/ l \in cancelled
       \/ ~isConnected
       \/ transport # NoCtx /\ Closed(transport)
    /\ pc' = [pc EXCEPT ![l] = "exit"]
    /\ UNCHANGED <<stopRoutines, isConnected, transport, serverSalt,
                   responseChannels, lastMessageID, mutex, cancelled, nextCtx,
                   ret, ctxOf, mb, target, bq, result, slept, written,
                   answered, events, hist, fault>>
    /\ UNCHANGED offSession

\* the loop is in transport.ReadMsg on a live transport
InReadMsg(l) ==
    /\ pc[l] = "top"
    /\ l \notin cancelled
    /\ isConnected
    /\ transport # NoCtx
    /\ ~Closed(transport)

\* a variant of Route that knows no service mode; C19 tells the two apart
Route_NeverService(mode) == "processResponse"

\* readMsg, lines 436-450: where a message that was read goes
Route(mode) == IF mode THEN "serviceChannel" ELSE "processResponse"

\* the loop reads a message that goes to processResponse
Reading(l) ==
    /\ InReadMsg(l)
    /\ Route(serviceModeActivated) = "processResponse"

\* processResponse, case RpcResult: writeRPCResponse(ReqMsgID, obj) begins
LoopRpcResult(l, k, v) ==
    /\ Reading(l)
    /\ <<k, transport>> \in written
    /\ k \notin answered
    /\ k \in responseChannels
    /\ v \in FloodVals => events < MaxEvents
    /\ events' = IF v \in FloodVals THEN events + 1 ELSE events
    /\ answered' = answered \cup {k}
    /\ target' = [target EXCEPT ![l] = [key |-> k, val |-> v]]
    /\ pc' = [pc EXCEPT ![l] = "deliver"]
    /\ UNCHANGED <<stopRoutines, isConnected, transport, serverSalt,
                   responseChannels, lastMessageID, mutex, cancelled, nextCtx,
                   ret, ctxOf, mb, bq, result, slept, written, hist,
                   fault>>
    /\ UNCHANGED offSession

\* writeRPCResponse: v <- data meets the caller's <-resp; the mailbox goes
Deliver(l, c) ==
    /\ pc[l] = "deliver"
    /\ pc[c] = "await"
    /\ mb[c] = target[l].key
    /\ mb[c] \notin closedCh
    /\ responseChannels' = responseChannels \ {target[l].key}
    /\ pc' = [Receive(c, target[l].val) EXCEPT ![l] = AtSelect(l, cancelled)]
    /\ result' = IF AfterResponse(target[l].val) = "done"
                 THEN [result EXCEPT ![c] = target[l].val] ELSE result
    /\ hist' = Log(c, Event("recv", mb[c], target[l].val))
    /\ target' = [target EXCEPT ![l] = NoTarget]
    /\ UNCHANGED <<stopRoutines, isConnected, transport, serverSalt,
                   lastMessageID, mutex, cancelled, nextCtx, ret, ctxOf, mb,
                   bq, slept, written, answered, events, fault>>
    /\ UNCHANGED offSession

\* processResponse, case BadServerSalt, lines 476-483: the salt, then Reconnect
LoopBadServerSalt(l, s) ==
    /\ Reading(l)
    /\ nextCtx <= MaxCtx
    /\ events < MaxEvents
    /\ events' = events + 1
    /\ serverSalt' = s
    /\ notified' = Noted(notified, s)
    /\ pc' = [pc EXCEPT ![l] = "rc_disc"]
    /\ ret' = [ret EXCEPT ![l] = "bcast"]
    /\ UNCHANGED <<stopRoutines, isConnected, transport, responseChannels,
                   lastMessageID, mutex, cancelled, nextCtx, ctxOf, mb,
                   target, bq, result, slept, written, answered, hist, fault>>
    /\ UNCHANGED <<offSalt, rest>>

\* lines 486-488: the range over Keys() goes on with key k, in the map's
\* order (any), or ends: m.mutex.Unlock() and processResponse returns nil
BcastGo(l, keys, k) ==
    IF keys = {}
    THEN /\ mutex' = 0
         /\ bq' = [bq EXCEPT ![l] = {}]
         /\ target' = [target EXCEPT ![l] = NoTarget]
    ELSE /\ k \in keys
         /\ mutex' = l
         /\ bq' = [bq EXCEPT ![l] = keys \ {k}]
         /\ target' = [target EXCEPT ![l] = [key |-> k, val |-> Sentinel]]

\* processResponse, lines 468-473: a BadServerSalt that was an item of a
\* container gives way to the items after it
AfterItem(l) == IF rest[l] # <<>> THEN "cont" ELSE AtSelect(l, cancelled)

BcastPc(l, keys) == IF keys = {} THEN AfterItem(l) ELSE "bcast_send"

\* lines 485-486: m.mutex.Lock(), the keys of responseChannels
BcastLock(l, k) ==
    /\ pc[l] = "bcast"
    /\ mutex = 0
    /\ BcastGo(l, responseChannels, k)
    /\ pc' = [pc EXCEPT ![l] = BcastPc(l, responseChannels)]
    /\ UNCHANGED <<stopRoutines, isConnected, transport, serverSalt,
                   responseChannels, lastMessageID, cancelled, nextCtx, ret,
                   ctxOf, mb, result, slept, written, answered, events, hist, fault>>
    /\ UNCHANGED offSession

\* line 488: v <- &errorSessionConfigsChanged{} meets the caller's <-resp
BcastDeliver(l, c, k) ==
    /\ pc[l] = "bcast_send"
    /\ pc[c] = "await"
    /\ mb[c] = target[l].key
    /\ mb[c] \notin closedCh
    /\ BcastGo(l, bq[l], k)
    /\ pc' = [Receive(c, Sentinel) EXCEPT ![l] = BcastPc(l, bq[l])]
    /\ hist' = Log(c, Event("recv", mb[c], Sentinel))
    /\ UNCHANGED <<stopRoutines, isConnected, transport, serverSalt,
                   responseChannels, lastMessageID, cancelled, nextCtx, ret,
                   ctxOf, mb, result, slept, written, answered, events, fault>>
    /\ UNCHANGED offSession

\* startReadingResponses, lines 383-412: where the loop goes after the
\* Reconnect an error of this kind makes it call
AfterFault(kind) ==
    IF kind \in {"EOF", "required to reconnect!"} THEN "exit" ELSE "top"

\* readMsg gives io.EOF or a read error: the loop reconnects
LoopReadError(l, kind) ==
    /\ Reading(l)
    /\ kind \in {"EOF", "required to reconnect!", "reading message"}
    /\ events < MaxEvents
    /\ nextCtx <= MaxCtx
    /\ events' = events + 1
    /\ fault' = [kind |-> "read", keys |-> Awaited, by |-> l, recovered |-> FALSE]
    /\ pc' = [pc EXCEPT ![l] = "rc_disc"]
    /\ ret' = [ret EXCEPT ![l] = AfterFault(kind)]
    /\ UNCHANGED <<stopRoutines, isConnected, transport, serverSalt,
                   responseChannels, lastMessageID, mutex, cancelled, nextCtx,
                   ctxOf, mb, target, bq, result, slept, written, answered, hist>>
    /\ UNCHANGED offSession

\* processResponse, case BadMsgNotification, line 505: an error for readMsg,
\* which the loop's default branch answers with a Reconnect
LoopBadMsg(l) ==
    /\ Reading(l)
    /\ Awaited # {}
    /\ nextCtx <= MaxCtx
    /\ events < MaxEvents
    /\ events' = events + 1
    /\ fault' = [kind |-> "BadMsgNotification", keys |-> Awaited, by |-> l,
                 recovered |-> FALSE]
    /\ pc' = [pc EXCEPT ![l] = "rc_disc"]
    /\ ret' = [ret EXCEPT ![l] = AfterFault("Incomming Update")]
    /\ UNCHANGED <<stopRoutines, isConnected, transport, serverSalt,
                   responseChannels, lastMessageID, mutex, cancelled, nextCtx,
                   ctxOf, mb, target, bq, result, slept, written, answered, hist>>
    /\ UNCHANGED offSession

\* ------------------------------------------------------------------ sender pool
\* CreateExportedSender as its caller sees it: a new sender and a nil error,
\* or nil and an error, which names an invalid authorization or does not
Outcomes == {"ok", "The provided authorization is invalid", "initial request"}

\* line 449: strings.Contains(err.Error(), AuthInvalidError)
IsAuthInvalid(o) == o = "The provided authorization is invalid"

\* lines 447-457: where a goroutine of the empty-pool branch goes with the
\* outcome of its first CreateExportedSender
AfterCreate(o) == IF IsAuthInvalid(o) THEN "retry" ELSE "rd_ret"

\* lines 450-453: where it goes with the outcome of the second one
AfterRetry(o) == IF o = "ok" THEN "rd_ret" ELSE "exit"

\* BorrowExportedSenders, lines 423-440 and 464-479: the lock (free when
\* neither a borrow nor cleanExportedSenders holds it), the checks of the
\* count, the branch taken
Borrow(n) ==
    /\ bpc = "idle"
    /\ cleanPc \in {"none", "check", "wait"}
    /\ borrows < MaxBorrows
    /\ borrows' = borrows + 1
    /\ countInt' = n
    /\ authLog' = {}
    /\ IF n < 1
       THEN /\ borrowErr' = "count must be greater than 0"
            /\ returned' = <<>>
            /\ bpc' = "done"
            /\ UNCHANGED wk
       ELSE IF n > CountLimit
       THEN /\ borrowErr' = "count must be less than 10"
            /\ returned' = <<>>
            /\ bpc' = "done"
            /\ UNCHANGED wk
       ELSE IF Len(senders) = 0
       THEN /\ borrowErr' = ""
            /\ returned' = <<>>
            /\ bpc' = "wait"
            /\ wk' = [i \in Workers |->
                        IF i <= n THEN [NoWorker EXCEPT !.pc = "create"]
                        ELSE NoWorker]
       ELSE IF Len(senders) < n
       THEN /\ borrowErr' = ""
            /\ returned' = senders
            /\ bpc' = "seq"
            /\ UNCHANGED wk
       ELSE /\ borrowErr' = ""
            /\ returned' = SubSeq(senders, 1, n)
            /\ bpc' = "done"
            /\ UNCHANGED wk
    /\ UNCHANGED <<senders, nextSender>>
    /\ UNCHANGED offPool

\* the call has returned (returned, borrowErr); the deferred Unlock
BorrowReturn ==
    /\ bpc = "done"
    /\ bpc' = "idle"
    /\ UNCHANGED <<senders, returned, countInt, borrowErr, wk, nextSender,
                   borrows, authLog>>
    /\ UNCHANGED offPool

\* line 446: a goroutine's first CreateExportedSender, lines 447-457
WorkerCreate(i, o) ==
    /\ bpc = "wait"
    /\ wk[i].pc = "create"
    /\ wk' = [wk EXCEPT ![i].pc = AfterCreate(o),
                        ![i].sender = IF o = "ok" THEN nextSender ELSE NilSender]
    /\ nextSender' = IF o = "ok" THEN nextSender + 1 ELSE nextSender
    /\ UNCHANGED <<senders, returned, countInt, borrowErr, bpc, borrows,
                   authLog>>
    /\ UNCHANGED offPool

\* line 450: the second CreateExportedSender, lines 451-453
WorkerRetry(i, o) ==
    /\ bpc = "wait"
    /\ wk[i].pc = "retry"
    /\ wk' = [wk EXCEPT ![i].pc = AfterRetry(o),
                        ![i].sender = IF o = "ok" THEN nextSender ELSE NilSender]
    /\ nextSender' = IF o = "ok" THEN nextSender + 1 ELSE nextSender
    /\ authLog' = authLog \cup (IF o = "ok" THEN {"retried"}
                                ELSE {"retried", "retry failed"})
    /\ UNCHANGED <<senders, returned, countInt, borrowErr, bpc, borrows>>
    /\ UNCHANGED offPool

\* line 458, returned = append(returned, exportedSender), under no lock of
\* the goroutines' own: the slice is read ...
WorkerReadReturned(i) ==
    /\ wk[i].pc = "rd_ret"
    /\ wk' = [wk EXCEPT ![i].pc = "wr_ret", ![i].snap = returned]
    /\ UNCHANGED <<senders, returned, countInt, borrowErr, bpc, nextSender,
                   borrows, authLog>>
    /\ UNCHANGED offPool

\* ... and written back one longer
WorkerWriteReturned(i) ==
    /\ wk[i].pc = "wr_ret"
    /\ returned' = Append(wk[i].snap, wk[i].sender)
    /\ wk' = [wk EXCEPT ![i].pc = "rd_snd", ![i].snap = <<>>]
    /\ UNCHANGED <<senders, countInt, borrowErr, bpc, nextSender, borrows,
                   authLog>>
    /\ UNCHANGED offPool

\* line 459, the same for c.exportedSenders.senders[dcID]
WorkerReadSenders(i) ==
    /\ wk[i].pc = "rd_snd"
    /\ wk' = [wk EXCEPT ![i].pc = "wr_snd", ![i].snap = senders]
    /\ UNCHANGED <<senders, returned, countInt, borrowErr, bpc, nextSender,
                   borrows, authLog>>
    /\ UNCHANGED offPool

WorkerWriteSenders(i) ==
    /\ wk[i].pc = "wr_snd"
    /\ senders' = Append(wk[i].snap, wk[i].sender)
    /\ wk' = [wk EXCEPT ![i] = [NoWorker EXCEPT !.pc = "exit"]]
    /\ UNCHANGED <<returned, countInt, borrowErr, bpc, nextSender, borrows,
                   authLog>>
    /\ UNCHANGED offPool

\* line 462: exportWaitGroup.Wait() returns, line 481
WaitDone ==
    /\ bpc = "wait"
    /\ \A i \in Workers : wk[i].pc \in {"none", "exit"}
    /\ bpc' = "done"
    /\ wk' = [i \in Workers |-> NoWorker]
    /\ UNCHANGED <<senders, returned, countInt, borrowErr, nextSender,
                   borrows, authLog>>
    /\ UNCHANGED offPool

\* lines 467-474: one round of the short-pool loop; an error of any kind
\* ends the call
SeqCreate(o) ==
    /\ bpc = "seq"
    /\ IF o = "ok"
       THEN /\ returned' = Append(returned, nextSender)
            /\ senders' = Append(senders, nextSender)
            /\ nextSender' = nextSender + 1
            /\ bpc' = IF Len(returned) + 1 < countInt THEN "seq" ELSE "done"
            /\ UNCHANGED <<borrowErr, authLog>>
       ELSE /\ returned' = <<>>
            /\ borrowErr' = "creating exported sender"
            /\ bpc' = "done"
            /\ authLog' = IF IsAuthInvalid(o)
                          THEN authLog \cup {"not retried"} ELSE authLog
            /\ UNCHANGED <<senders, nextSender>>
    /\ UNCHANGED <<countInt, wk, borrows>>
    /\ UNCHANGED offPool

\* ------------------------------------------------------------------ CreateExportedSender
\* DefaultDataCenter, the datacenter of the primary session
PrimaryDC == 4
\* the datacenters senders are created for
DCs == {2, PrimaryDC}

\* shareAuthWithTimeout, lines 403-405: what it returns when shareAuth
\* returned e
ShareAuthWithTimeout(e) == ""

\* line 369: the call
CreateExportedSender(dc) ==
    /\ cs.pc = "idle"
    /\ Len(made) < MaxCreates
    /\ cs' = [NoCreate EXCEPT !.pc = "export", !.dc = dc]
    /\ UNCHANGED made
    /\ UNCHANGED offSender

\* lines 371-374: c.MTProto.ExportNewSender(dcID, true)
ExportNewSender(ok) ==
    /\ cs.pc = "export"
    /\ cs' = IF ok THEN [cs EXCEPT !.pc = "initial"]
             ELSE [cs EXCEPT !.pc = "done", !.err = "exporting new sender"]
    /\ UNCHANGED made
    /\ UNCHANGED offSender

\* lines 376-380: exportedSender.InitialRequest(), then the datacenters
\* compared
InitialRequest(ok) ==
    /\ cs.pc = "initial"
    /\ cs' = IF ~ok THEN [cs EXCEPT !.pc = "done", !.err = "initial request"]
             ELSE IF cs.dc # PrimaryDC THEN [cs EXCEPT !.pc = "share_export"]
             ELSE [cs EXCEPT !.pc = "done"]
    /\ UNCHANGED made
    /\ UNCHANGED offSender

\* errors.Wrap(err, msg): nil when err is nil
Wrap(err, msg) == IF err = "" THEN "" ELSE msg

\* shareAuth, lines 410-413: main.AuthExportAuthorization gives an
\* authorization, an error, or neither of them
AuthExportAuthorization(o) ==
    /\ cs.pc = "share_export"
    /\ o \in {"ok", "error", "nil"}
    /\ cs' = IF o = "ok"
             THEN [cs EXCEPT !.pc = "share_import", !.exported = TRUE]
             ELSE [cs EXCEPT !.pc = "share_ret",
                             !.shareErr = Wrap(IF o = "error" THEN "rpc" ELSE "",
                                               "exporting authorization")]
    /\ UNCHANGED made
    /\ UNCHANGED offSender

\* shareAuth, lines 414-418: c.AuthImportAuthorization on the new sender
AuthImportAuthorization(ok) ==
    /\ cs.pc = "share_import"
    /\ cs' = IF ok
             THEN [cs EXCEPT !.pc = "share_ret", !.imported = TRUE]
             ELSE [cs EXCEPT !.pc = "share_ret",
                             !.shareErr = "importing authorization"]
    /\ UNCHANGED made
    /\ UNCHANGED offSender

\* lines 381-386: the result of shareAuthWithTimeout decides
ShareAuthReturn ==
    /\ cs.pc = "share_ret"
    /\ cs' = IF ShareAuthWithTimeout(cs.shareErr) # ""
             THEN [cs EXCEPT !.pc = "done", !.err = "sharing auth"]
             ELSE [cs EXCEPT !.pc = "done"]
    /\ UNCHANGED made
    /\ UNCHANGED offSender

\* CreateExportedSender has returned (sender, nil) or (nil, err)
CreateReturn ==
    /\ cs.pc = "done"
    /\ made' = Append(made, [cs EXCEPT !.pc = "idle"])
    /\ cs' = NoCreate
    /\ UNCHANGED offSender

\* ------------------------------------------------------------------ cleanExportedSenders
\* c.exportedSenders.senders is a map, not nil: lines 425-427 and 349-351
\* make it
MapMade == borrows > 0 \/ adds > 0

\* the handles of a slice of senders
Handles(q) == {q[i] : i \in 1 .. Len(q)}

\* lines 502-505: the senders of q that Terminate is called on before the
\* loop meets a nil one, all of them if there is none
TerminatedOf(q) ==
    {q[i] : i \in {j \in 1 .. Len(q) : \A h \in 1 .. j : q[h] # NilSender}}

\* a variant of Cleared that leaves the entry as it is; C12 tells the two
\* apart
Cleared_Kept(q) == q

\* line 506: c.exportedSenders.senders[dcID] = nil
Cleared(q) == <<>>

\* AddNewExportedSenderToMap, lines 346-356, with a sender made elsewhere
AddNewExportedSenderToMap ==
    /\ adds < MaxAdds
    /\ bpc = "idle"
    /\ cleanPc \in {"none", "check", "wait"}
    /\ adds' = adds + 1
    /\ senders' = Append(senders, nextSender)
    /\ nextSender' = nextSender + 1
    /\ UNCHANGED <<returned, countInt, borrowErr, bpc, wk, borrows, authLog>>
    /\ UNCHANGED <<cleanPc, cleanSnap, terminated, cleans>>
    /\ UNCHANGED offClean

\* Client.Disconnect, line 322, Client.Terminate, line 606:
\* go c.cleanExportedSenders()
CleanStart ==
    /\ cleanPc = "none"
    /\ cleans < MaxCleans
    /\ cleans' = cleans + 1
    /\ cleanPc' = "check"
    /\ UNCHANGED <<cleanSnap, terminated, adds>>
    /\ UNCHANGED poolVars
    /\ UNCHANGED offClean

\* lines 495-497: the map read without the lock; nil ends the run
CleanCheck ==
    /\ cleanPc = "check"
    /\ cleanPc' = IF MapMade THEN "wait" ELSE "none"
    /\ UNCHANGED <<cleanSnap, terminated, cleans, adds>>
    /\ UNCHANGED poolVars
    /\ UNCHANGED offClean

\* lines 498-508: the lock, every sender terminated, the entry cleared; a nil
\* sender in the pool makes sender.Terminate() panic
CleanRun ==
    /\ cleanPc = "wait"
    /\ bpc = "idle"
    /\ cleanSnap' = Handles(senders)
    /\ terminated' = terminated \cup TerminatedOf(senders)
    /\ IF NilSender \in Handles(senders)
       THEN /\ cleanPc' = "panic"
            /\ UNCHANGED senders
       ELSE /\ cleanPc' = "done"
            /\ senders' = Cleared(senders)
    /\ UNCHANGED <<cleans, adds>>
    /\ UNCHANGED <<returned, countInt, borrowErr, bpc, wk, nextSender,
                   borrows, authLog>>
    /\ UNCHANGED offClean

\* the deferred Unlock: cleanExportedSenders has completed
CleanReturn ==
    /\ cleanPc = "done"
    /\ cleanPc' = "none"
    /\ UNCHANGED <<cleanSnap, terminated, cleans, adds>>
    /\ UNCHANGED poolVars
    /\ UNCHANGED offClean

\* ------------------------------------------------------------------ sessions and the store
\* a datacenter id that is not in the endpoint table
NoSuchDC == 9

\* an endpoint table that would hold an entry for every id asked for
DcList_WithNoSuchDC == DCs \cup {NoSuchDC}

\* utils.DcList: the endpoint table; an address is written as the number of
\* its datacenter
DcList == DCs

\* NewMTProto, lines 94-121: the session a Config gives; a persisted
\* session, when Load finds one, overrides the configured host
NewMTProto(host, memOnly, fromMem, stored) ==
    [live |-> TRUE, addr |-> IF stored # 0 THEN stored ELSE host,
     mem |-> memOnly, memCfg |-> fromMem, stopped |-> FALSE]

\* lines 155-159, 477-482, 495-500: if !m.memorySession { m.SaveSession() }
Saves(sess) == ~sess.mem

\* the store after session sess handled something that may save it
StoreAfter(sess) == IF Saves(sess) THEN sess.addr ELSE store

\* the record of a save by a session that is, or descends from, a
\* memory-only one
MemWritesAfter(sess, op) ==
    IF Saves(sess) /\ sess.memCfg THEN memWrites \cup {op} ELSE memWrites

\* the client starts: NewMTProto with the user's Config, a persisted session
\* being there from an earlier run or not
StartPrimary(memOnly, stored) ==
    /\ ~prim.live
    /\ mig.pc = "idle"
    /\ storeOps = 0
    /\ stored \in {0, PrimaryDC}
    /\ store' = stored
    /\ prim' = NewMTProto(PrimaryDC, memOnly, memOnly, stored)
    /\ UNCHANGED <<xs, mig, memWrites, storeOps>>
    /\ UNCHANGED offStore

\* ImportAuth, lines 146-161, of a string session for address a
ImportAuth(a, decoded) ==
    /\ prim.live
    /\ mig.pc = "idle"
    /\ storeOps < MaxStoreOps
    /\ storeOps' = storeOps + 1
    /\ IF decoded
       THEN /\ prim' = [prim EXCEPT !.addr = a]
            /\ store' = StoreAfter(prim')
            /\ memWrites' = MemWritesAfter(prim', "ImportAuth")
       ELSE UNCHANGED <<prim, store, memWrites>>
    /\ UNCHANGED <<xs, mig>>
    /\ UNCHANGED offStore

\* processResponse, lines 475-482 and 493-500: a BadServerSalt or a
\* NewSessionCreated on the primary, or on the exported session
SaltNotification(onPrimary, kind) ==
    LET sess == IF onPrimary THEN prim ELSE xs IN
    /\ sess.live
    /\ mig.pc = "idle"
    /\ storeOps < MaxStoreOps
    /\ storeOps' = storeOps + 1
    /\ store' = StoreAfter(sess)
    /\ memWrites' = MemWritesAfter(sess, kind)
    /\ UNCHANGED <<prim, xs, mig>>
    /\ UNCHANGED offStore

\* ExportNewSender(dcID, true), lines 204-232: the storage of the primary
\* is shared when the datacenter is the primary's
ExportSession(dc) ==
    /\ prim.live
    /\ mig.pc = "idle"
    /\ ~xs.live
    /\ storeOps < MaxStoreOps
    /\ storeOps' = storeOps + 1
    /\ xs' = NewMTProto(dc, TRUE, TRUE, IF dc = prim.addr THEN store ELSE 0)
    /\ UNCHANGED <<prim, store, mig, memWrites>>
    /\ UNCHANGED offStore

\* ReconnectToNewDC, lines 178-181: the table looked up
ReconnectToNewDC(dc) ==
    /\ prim.live
    /\ mig.pc = "idle"
    /\ storeOps < MaxStoreOps
    /\ storeOps' = storeOps + 1
    /\ mig' = IF dc \in DcList
              THEN [NoMig EXCEPT !.pc = "delete", !.dc = dc]
              ELSE [NoMig EXCEPT !.pc = "done", !.dc = dc, !.err = "invalid DC"]
    /\ UNCHANGED <<prim, xs, store, memWrites>>
    /\ UNCHANGED offStore

\* line 182: m.sessionStorage.Delete(), its result dropped
MigDelete(ok) ==
    /\ mig.pc = "delete"
    /\ ok \/ store # 0
    /\ store' = IF ok THEN 0 ELSE store
    /\ mig' = [mig EXCEPT !.pc = "new", !.deleted = ok]
    /\ UNCHANGED <<prim, xs, memWrites, storeOps>>
    /\ UNCHANGED offStore

\* lines 183-194: the Config (MemorySession: false) and NewMTProto
MigNewMTProto ==
    /\ mig.pc = "new"
    /\ mig' = [mig EXCEPT !.pc = "stop",
                          !.cand = NewMTProto(mig.dc, FALSE, prim.memCfg, store)]
    /\ UNCHANGED <<prim, xs, store, memWrites, storeOps>>
    /\ UNCHANGED offStore

\* line 195: m.stopRoutines()
MigStop ==
    /\ mig.pc = "stop"
    /\ prim' = [prim EXCEPT !.stopped = TRUE]
    /\ mig' = [mig EXCEPT !.pc = "connect"]
    /\ UNCHANGED <<xs, store, memWrites, storeOps>>
    /\ UNCHANGED offStore

\* lines 197-201: sender.CreateConnection(true) and the return
MigCreateConnection(ok) ==
    /\ mig.pc = "connect"
    /\ mig' = IF ok THEN [mig EXCEPT !.pc = "done"]
              ELSE [mig EXCEPT !.pc = "done", !.err = "creating connection",
                               !.cand = NoSess]
    /\ UNCHANGED <<prim, xs, store, memWrites, storeOps>>
    /\ UNCHANGED offStore

\* switchDC, lines 329-333: the caller swaps its reference
SwitchDC ==
    /\ mig.pc = "done"
    /\ prim' = IF mig.err = "" THEN mig.cand ELSE prim
    /\ mig' = NoMig
    /\ UNCHANGED <<xs, store, memWrites, storeOps>>
    /\ UNCHANGED offStore

\* ------------------------------------------------------------------ Disconnect, Terminate
\* what the session's own steps leave alone of the variables above
SessionRest == <<stopRoutines, transport, serverSalt, lastMessageID, mutex,
                 nextCtx, ret, ctxOf, mb, target, bq, slept, written,
                 answered, events, fault>>

\* Disconnect, lines 323-328, called by the user of the session
Disconnect ==
    /\ stopRoutines # NoCtx
    /\ stops < MaxStops
    /\ stops' = stops + 1
    /\ cancelled' = cancelled \cup {stopRoutines}
    /\ isConnected' = FALSE
    /\ UNCHANGED <<responseChannels, pc, result, hist, closedCh, termWaiting>>
    /\ UNCHANGED SessionRest
    /\ UNCHANGED offLoop

\* responseChannels.Close(): every mailbox closed and out of the map
CloseAll(keys) == {}

\* MTProto.Terminate, lines 330-336
MTProtoTerminate ==
    /\ stopRoutines # NoCtx
    /\ cancelled' = cancelled \cup {stopRoutines}
    /\ closedCh' = closedCh \cup responseChannels
    /\ responseChannels' = CloseAll(responseChannels)
    /\ isConnected' = FALSE
    /\ termWaiting' = {c \in Callers : pc[c] = "await"}
    /\ UNCHANGED <<pc, result, hist>>
    /\ UNCHANGED SessionRest

\* Terminate called by the user of the session
Terminate ==
    /\ stops < MaxStops
    /\ stops' = stops + 1
    /\ MTProtoTerminate
    /\ UNCHANGED offLoop

\* makeRequest, lines 293-308: response := <-resp on a closed mailbox gives
\* nil, which no case of the switch takes
ReceiveClosed(c) ==
    /\ pc[c] = "await"
    /\ mb[c] \in closedCh
    /\ pc' = [pc EXCEPT ![c] = "done"]
    /\ result' = [result EXCEPT ![c] = NilVal]
    /\ hist' = Log(c, Event("recv", mb[c], NilVal))
    /\ UNCHANGED <<responseChannels, isConnected, cancelled, closedCh, stops,
                   termWaiting>>
    /\ UNCHANGED SessionRest
    /\ UNCHANGED offLoop

\* a loop whose send meets a closed mailbox panics
SendOnClosed(l) ==
    /\ pc[l] \in {"deliver", "bcast_send"}
    /\ target[l].key \in closedCh
    /\ pc' = [pc EXCEPT ![l] = "panic"]
    /\ mutex' = IF mutex = l THEN 0 ELSE mutex
    /\ UNCHANGED <<stopRoutines, isConnected, transport, serverSalt,
                   responseChannels, lastMessageID, cancelled, nextCtx, ret,
                   ctxOf, mb, target, bq, result, slept, written, answered,
                   events, hist, fault, closedCh, stops, termWaiting>>
    /\ UNCHANGED offLoop

\* ------------------------------------------------------------------ salt notifications
\* the salts a notification may carry
NewSalts == {7, 9}

Item(k, s) == [kind |-> k, salt |-> s]
\* what a container holds here: the two notifications, a Pong, a
\* BadMsgNotification
Items == {Item(k, s) : k \in {"BadServerSalt", "NewSessionCreated"}, s \in NewSalts}
            \cup {Item("Pong", 0), Item("BadMsgNotification", 0)}
Containers == UNION {[1 .. n -> Items] : n \in 1 .. MaxItems}

\* a variant of SaltAfter that ignores NewSessionCreated; C16 tells the two
\* apart
SaltAfter_Keeps(it, salt) == salt

\* processResponse, line 494: m.serverSalt = message.ServerSalt; a Pong
\* leaves it
SaltAfter(it, salt) ==
    IF it.kind = "NewSessionCreated" THEN it.salt ELSE salt

NotedAfter(it, note) ==
    IF it.kind = "NewSessionCreated" THEN Noted(note, it.salt) ELSE note

\* processResponse, lines 467-473, over the items of a container: up to the
\* first item that returns an error (the rest is dropped) or that is a
\* BadServerSalt (which reconnects and broadcasts before the rest goes on)
RECURSIVE ProcessItems(_, _, _)
ProcessItems(items, salt, note) ==
    IF items = <<>>
    THEN [salt |-> salt, note |-> note, out |-> "ok", rest |-> <<>>]
    ELSE LET it == Head(items) IN
         IF it.kind = "BadMsgNotification"
         THEN [salt |-> salt, note |-> note, out |-> "error", rest |-> <<>>]
         ELSE IF it.kind = "BadServerSalt"
         THEN [salt |-> it.salt, note |-> Noted(note, it.salt),
               out |-> "badsalt", rest |-> Tail(items)]
         ELSE ProcessItems(Tail(items), SaltAfter(it, salt), NotedAfter(it, note))

\* where a loop goes with what ProcessItems gave
Dispatched(l, r) ==
    /\ serverSalt' = r.salt
    /\ notified' = r.note
    /\ rest' = [rest EXCEPT ![l] = r.rest]
    /\ pc' = [pc EXCEPT ![l] = IF r.out = "ok" THEN AtSelect(l, cancelled)
                                ELSE "rc_disc"]
    /\ ret' = IF r.out = "ok" THEN ret
              ELSE [ret EXCEPT ![l] = IF r.out = "badsalt" THEN "bcast"
                                       ELSE AfterFault("Incomming Update")]
    /\ UNCHANGED <<stopRoutines, isConnected, transport, responseChannels,
                   lastMessageID, mutex, cancelled, nextCtx, ctxOf, mb,
                   target, bq, result, slept, written, answered, hist, fault>>
    /\ UNCHANGED offSalt

\* processResponse, case NewSessionCreated, lines 493-500
LoopNewSessionCreated(l, s) ==
    /\ Reading(l)
    /\ events < MaxEvents
    /\ events' = events + 1
    /\ Dispatched(l, ProcessItems(<<Item("NewSessionCreated", s)>>,
                                  serverSalt, notified))

\* processResponse, case MessageContainer, lines 467-473
LoopContainer(l, items) ==
    /\ Reading(l)
    /\ events < MaxEvents
    /\ nextCtx <= MaxCtx
    /\ events' = events + 1
    /\ Dispatched(l, ProcessItems(items, serverSalt, notified))

\* the range over the container goes on after a BadServerSalt
LoopContinue(l) ==
    /\ pc[l] = "cont"
    /\ nextCtx <= MaxCtx
    /\ UNCHANGED events
    /\ Dispatched(l, ProcessItems(rest[l], serverSalt, notified))

\* ------------------------------------------------------------------ Idle, Stop, Terminate
\* Idle, line 612: c.wg.Add(1)
IdleAdd(i) ==
    /\ ~crashed
    /\ idlePc[i] = "none"
    /\ wg' = wg + 1
    /\ idlePc' = [idlePc EXCEPT ![i] = "added"]
    /\ UNCHANGED <<stopCh, waiter, sig, calls, crashed>>
    /\ UNCHANGED <<sessionVars, cleanVars, loopVars>>
    /\ UNCHANGED offIdle

\* lines 613-620: the two goroutines started, then c.wg.Wait()
IdleSpawn(i) ==
    /\ ~crashed
    /\ idlePc[i] = "added"
    /\ sig' = [sig EXCEPT ![i] = "waiting"]
    /\ waiter' = [waiter EXCEPT ![i] = "blocked"]
    /\ idlePc' = [idlePc EXCEPT ![i] = "wait"]
    /\ UNCHANGED <<stopCh, wg, calls, crashed>>
    /\ UNCHANGED <<sessionVars, cleanVars, loopVars>>
    /\ UNCHANGED offIdle

\* line 619: <-c.stopCh returns once the channel is closed; the deferred
\* c.wg.Done()
WaiterDone(i) ==
    /\ ~crashed
    /\ waiter[i] = "blocked"
    /\ stopCh
    /\ waiter' = [waiter EXCEPT ![i] = "done"]
    /\ wg' = wg - 1
    /\ UNCHANGED <<stopCh, idlePc, sig, calls, crashed>>
    /\ UNCHANGED <<sessionVars, cleanVars, loopVars>>
    /\ UNCHANGED offIdle

\* line 620: c.wg.Wait() returns when the counter is zero
IdleReturn(i) ==
    /\ ~crashed
    /\ idlePc[i] = "wait"
    /\ wg = 0
    /\ idlePc' = [idlePc EXCEPT ![i] = "returned"]
    /\ UNCHANGED <<stopCh, wg, waiter, sig, calls, crashed>>
    /\ UNCHANGED <<sessionVars, cleanVars, loopVars>>
    /\ UNCHANGED offIdle

\* Stop, lines 624-627: close(c.stopCh), which panics on a closed channel,
\* then MTProto.Terminate
StopBody ==
    /\ ~crashed
    /\ calls' = calls \cup {"Stop"}
    /\ IF stopCh
       THEN /\ crashed' = TRUE
            /\ UNCHANGED <<stopCh, sessionVars, closedCh, termWaiting>>
       ELSE /\ stopCh' = TRUE
            /\ MTProtoTerminate
            /\ UNCHANGED crashed
    /\ UNCHANGED <<wg, idlePc, waiter, stops>>
    /\ UNCHANGED cleanVars
    /\ UNCHANGED offIdle

\* Stop called by the user of the client
ClientStop ==
    /\ stopRoutines # NoCtx
    /\ "Stop" \notin calls
    /\ StopBody
    /\ UNCHANGED sig

\* lines 614-617: a signal arrives and the goroutine calls c.Stop()
Signal(i) ==
    /\ stopRoutines # NoCtx
    /\ sig[i] = "waiting"
    /\ sig' = [sig EXCEPT ![i] = "done"]
    /\ StopBody

\* Client.Terminate, lines 605-608: go c.cleanExportedSenders(), then
\* MTProto.Terminate
ClientTerminate ==
    /\ ~crashed
    /\ "Terminate" \notin calls
    /\ calls' = calls \cup {"Terminate"}
    /\ cleanPc = "none"
    /\ cleans < MaxCleans
    /\ cleans' = cleans + 1
    /\ cleanPc' = "check"
    /\ MTProtoTerminate
    /\ UNCHANGED <<cleanSnap, terminated, adds>>
    /\ UNCHANGED <<stopCh, wg, idlePc, waiter, sig, crashed, stops>>
    /\ UNCHANGED offIdle

\* ------------------------------------------------------------------ transport error codes
\* the codes the transport may give: -404 and another one
ErrCodes == {AuthKeyExpired, AuthKeyExpired + 1}

\* what transport.ReadMsg gives for a short packet
TransportErrCode(code) == [type |-> "transport.ErrCode", code |-> code]

\* readMsg, lines 425-427: return &ErrResponseCode{Code: int(e)}
ReadMsgErr(e) ==
    IF e.type = "transport.ErrCode"
    THEN [type |-> "*ErrResponseCode", code |-> e.code]
    ELSE e

\* startReadingResponses, line 391: e, ok := err.(transport.ErrCode)
IsErrCode(err) == err.type = "transport.ErrCode"

\* lines 390-412: what the default branch does with the error of readMsg.
\* After a handshake err is what makeAuthKey returned; on both branches of
\* line 401 the loop reconnects.
OnLoopError(err) ==
    [code |-> err.code,
     handshake |-> IsErrCode(err) /\ err.code = AuthKeyExpired,
     logged |-> IsErrCode(err) /\ err.code # AuthKeyExpired,
     reconnect |-> TRUE]

\* the transport read yields an error code
LoopErrCode(l, code) ==
    /\ Reading(l)
    /\ events < MaxEvents
    /\ nextCtx <= MaxCtx
    /\ events' = events + 1
    /\ codeLog' = codeLog \cup {OnLoopError(ReadMsgErr(TransportErrCode(code)))}
    /\ pc' = [pc EXCEPT ![l] = "rc_disc"]
    /\ ret' = [ret EXCEPT ![l] = AfterFault("ErrResponseCode")]
    /\ UNCHANGED <<stopRoutines, isConnected, transport, serverSalt,
                   responseChannels, lastMessageID, mutex, cancelled, nextCtx,
                   ctxOf, mb, target, bq, result, slept, written, answered,
                   hist, fault>>
    /\ UNCHANGED <<unknownLog, offered, serviceModeActivated, serviceChannel,
                   arrived, svcObj>>
    /\ UNCHANGED offRecv

\* ------------------------------------------------------------------ results without a mailbox, updates
\* what writeRPCResponse may return for a msg_id without a mailbox
UnknownOutcomes == {"no response channel", ""}

\* processResponse, lines 506-514: the case of an RpcResult ends the switch;
\* only the default case, lines 522-533, runs the serverRequestHandlers. An
\* error of writeRPCResponse is returned, readMsg wraps it (line 448) and
\* the loop's default branch reconnects.
OnRpcResult(k, wrErr) ==
    [key |-> k, offered |-> FALSE, err |-> wrErr # "", reconnect |-> wrErr # ""]

\* an RpcResult arrives whose ReqMsgID has no mailbox
LoopUnknownRpcResult(l, k, wrErr) ==
    /\ Reading(l)
    /\ k \notin responseChannels
    /\ events < MaxEvents
    /\ nextCtx <= MaxCtx
    /\ events' = events + 1
    /\ unknownLog' = unknownLog \cup {OnRpcResult(k, wrErr)}
    /\ IF OnRpcResult(k, wrErr).reconnect
       THEN /\ pc' = [pc EXCEPT ![l] = "rc_disc"]
            /\ ret' = [ret EXCEPT ![l] = AfterFault("Incomming Update")]
       ELSE UNCHANGED <<pc, ret>>
    /\ UNCHANGED <<stopRoutines, isConnected, transport, serverSalt,
                   responseChannels, lastMessageID, mutex, cancelled, nextCtx,
                   ctxOf, mb, target, bq, result, slept, written, answered,
                   hist, fault>>
    /\ UNCHANGED <<codeLog, offered, serviceModeActivated, serviceChannel,
                   arrived, svcObj>>
    /\ UNCHANGED offRecv

\* the updates the server sends unasked
Updates == {"updateShort"}

\* processResponse, the default case, lines 522-533
LoopUpdate(l, u) ==
    /\ Reading(l)
    /\ events < MaxEvents
    /\ events' = events + 1
    /\ offered' = offered \cup {u}
    /\ UNCHANGED <<stopRoutines, isConnected, transport, serverSalt,
                   responseChannels, lastMessageID, mutex, cancelled, nextCtx,
                   pc, ret, ctxOf, mb, target, bq, result, slept, written,
                   answered, hist, fault>>
    /\ UNCHANGED <<codeLog, unknownLog, serviceModeActivated, serviceChannel,
                   arrived, svcObj>>
    /\ UNCHANGED offRecv

\* ------------------------------------------------------------------ service mode
\* what the server may send: a reply of the handshake, a result for a
\* msg_id, the two salt notifications, an update
SvcObjs ==
    {Obj("ResPQ", NoKey, 0), Obj("updateShort", NoKey, 0)}
        \cup {Obj("RpcResult", k, 0) : k \in 1 .. MaxSends}
        \cup {Obj(kind, NoKey, s) : kind \in {"BadServerSalt", "NewSessionCreated"},
                                    s \in Salts}

\* CreateConnection, lines 234-257, of a session without an auth key:
\* the loop started, then makeAuthKey, which runs in service mode
ConnectHandshake ==
    /\ stopRoutines = NoCtx
    /\ nextCtx = 1
    /\ stopRoutines' = 1
    /\ nextCtx' = 2
    /\ transport' = 1
    /\ isConnected' = TRUE
    /\ pc' = [pc EXCEPT ![1] = "top"]
    /\ serviceModeActivated' = TRUE
    /\ UNCHANGED <<serverSalt, responseChannels, lastMessageID, mutex,
                   cancelled, ret, ctxOf, mb, target, bq, result, slept,
                   written, answered, events, hist, fault>>
    /\ UNCHANGED <<codeLog, unknownLog, offered, serviceChannel, arrived, svcObj>>
    /\ UNCHANGED offRecv

\* readMsg, lines 436-442: the object decoded, the send on serviceChannel
\* begun
LoopServiceRead(l, obj) ==
    /\ InReadMsg(l)
    /\ Route(serviceModeActivated) = "serviceChannel"
    /\ Len(arrived) < MaxObjs
    /\ obj.kind = "RpcResult" => obj.key <= lastMessageID
    /\ arrived' = Append(arrived, obj)
    /\ svcObj' = [svcObj EXCEPT ![l] = obj]
    /\ pc' = [pc EXCEPT ![l] = "svc_send"]
    /\ UNCHANGED <<stopRoutines, isConnected, transport, serverSalt,
                   responseChannels, lastMessageID, mutex, cancelled, nextCtx,
                   ret, ctxOf, mb, target, bq, result, slept, written,
                   answered, events, hist, fault>>
    /\ UNCHANGED <<codeLog, unknownLog, offered, serviceModeActivated,
                   serviceChannel>>
    /\ UNCHANGED offRecv

\* lines 442-443: m.serviceChannel <- obj meets the receive of the
\* handshake driver; readMsg returns nil
ServiceTake(l) ==
    /\ pc[l] = "svc_send"
    /\ serviceModeActivated
    /\ serviceChannel' = Append(serviceChannel, svcObj[l])
    /\ svcObj' = [svcObj EXCEPT ![l] = NoObj]
    /\ pc' = [pc EXCEPT ![l] = AtSelect(l, cancelled)]
    /\ UNCHANGED <<stopRoutines, isConnected, transport, serverSalt,
                   responseChannels, lastMessageID, mutex, cancelled, nextCtx,
                   ret, ctxOf, mb, target, bq, result, slept, written,
                   answered, events, hist, fault>>
    /\ UNCHANGED <<codeLog, unknownLog, offered, serviceModeActivated, arrived>>
    /\ UNCHANGED offRecv

\* makeAuthKey has its key and leaves service mode
HandshakeEnd ==
    /\ serviceModeActivated
    /\ serviceModeActivated' = FALSE
    /\ UNCHANGED sessionVars
    /\ UNCHANGED <<codeLog, unknownLog, offered, serviceChannel, arrived, svcObj>>
    /\ UNCHANGED offRecv

\* ------------------------------------------------------------------ auth key, connections
\* NewMTProto, lines 94-133, for a Config whose storage holds a session or
\* not and that has a string session or not: m.encrypted, and the key that
\* ImportAuth or LoadSession sets
KeyNew(stored, str) ==
    /\ kpc = "none"
    /\ kpc' = "made"
    /\ encrypted' = (stored \/ str)
    /\ authKey' = IF str THEN "ImportAuth"
                  ELSE IF stored THEN "LoadSession" ELSE "none"
    /\ UNCHANGED <<kConnected, kLoop, created, imported, handshakes, connects>>
    /\ UNCHANGED offKey

\* CreateConnection, lines 234-257, on a session that holds key, is
\* connected or not and has a reader or not: m.connect, m.isConnected = true,
\* the reader started, then makeAuthKey if !m.encrypted
CreateConnection(key, conn, loop, connOk, hsOk) ==
    LET hs == connOk /\ ~encrypted
        nowConn == conn \/ connOk
        nowLoop == loop \/ connOk
    IN  /\ connects' = connects + 1
        /\ kConnected' = nowConn
        /\ kLoop' = nowLoop
        /\ handshakes' = IF hs THEN handshakes \cup {key} ELSE handshakes
        /\ authKey' = IF hs /\ hsOk THEN "makeAuthKey" ELSE key
        /\ encrypted' = (encrypted \/ (hs /\ hsOk))
        /\ created' = [called |-> TRUE,
                       err |-> IF ~connOk THEN "connect"
                               ELSE IF hs /\ ~hsOk THEN "making auth key" ELSE "",
                       connected |-> nowConn, loop |-> nowLoop]

\* Client.Connect: the first CreateConnection, or one after a failed one
KeyConnect(connOk, hsOk) ==
    /\ kpc = "made"
    /\ ~kConnected
    /\ connects < MaxConnects
    /\ CreateConnection(authKey, kConnected, kLoop, connOk, hsOk)
    /\ UNCHANGED <<kpc, imported>>
    /\ UNCHANGED offKey

\* Reconnect, lines 338-355: Disconnect, then CreateConnection
KeyReconnect(connOk, hsOk) ==
    /\ kpc = "made"
    /\ connects > 0
    /\ connects < MaxConnects
    /\ CreateConnection(authKey, FALSE, FALSE, connOk, hsOk)
    /\ UNCHANGED <<kpc, imported>>
    /\ UNCHANGED offKey

\* ImportAuth, lines 146-161, called on the session by its user
KeyImportAuth(decoded, saved) ==
    /\ kpc = "made"
    /\ authKey' = IF decoded THEN "ImportAuth" ELSE authKey
    /\ imported' = [by |-> "ImportAuth",
                    ok |-> decoded /\ saved,
                    err |-> IF ~decoded THEN "decoding string session"
                            ELSE IF ~saved THEN "saving session" ELSE ""]
    /\ UNCHANGED <<kpc, encrypted, kConnected, kLoop, created, handshakes,
                   connects>>
    /\ UNCHANGED offKey

\* ImportRawAuth, lines 140-144: the key, then Reconnect, then
\* `return err != nil, err`
KeyImportRawAuth(connOk, hsOk) ==
    /\ kpc = "made"
    /\ connects > 0
    /\ connects < MaxConnects
    /\ CreateConnection("ImportRawAuth", FALSE, FALSE, connOk, hsOk)
    /\ imported' = [by |-> "ImportRawAuth",
                    ok |-> created'.err # "",
                    err |-> Wrap(created'.err, "recreating connection")]
    /\ UNCHANGED kpc
    /\ UNCHANGED offKey

\* ------------------------------------------------------------------ acknowledgements
\* an even and an odd seq_no
SeqNos == {4, 5}
\* what a message can be, apart from a container. An RpcResult is one
\* whose writeRPCResponse returns nil, an RpcResultUnwritten one whose
\* writeRPCResponse returns an error.
MsgKinds == {"Pong", "NewSessionCreated", "RpcResult", "RpcResultUnwritten",
             "BadMsgNotification", "update"}

Msg(id, seq, kind, items) == [id |-> id, seq |-> seq, kind |-> kind, items |-> items]

\* the msg_ids of packet number r: the message itself, then its items
MsgId(r, i) == 10 * r + i

\* the packets the server may send as number r
PlainMsgs(r, i) == {Msg(MsgId(r, i), seq, kind, <<>>) : seq \in SeqNos, kind \in MsgKinds}
Packets(r) ==
    PlainMsgs(r, 0)
        \cup {Msg(MsgId(r, 0), seq, "MessageContainer", <<a>>) :
                    seq \in SeqNos, a \in PlainMsgs(r, 1)}
        \cup {Msg(MsgId(r, 0), seq, "MessageContainer", <<a, b>>) :
                    seq \in SeqNos, a \in PlainMsgs(r, 1), b \in PlainMsgs(r, MaxAckItems)}

\* processResponse, line 535: (msg.GetSeqNo() & 1) != 0
NeedsAck(seq) == seq % 2 # 0

\* processResponse, lines 504-505 and 511-514: the cases that return an
\* error from inside the switch
ReturnsError(kind) == kind \in {"BadMsgNotification", "RpcResultUnwritten"}

NoAcks == [acks |-> {}, err |-> ""]

\* processResponse, lines 453-543: the msg_ids acknowledged and the error
\* returned. A container ranges over its items (lines 467-473) and returns
\* at the first that fails; the acknowledgement of lines 535-540 is reached
\* only when the switch returned nothing.
RECURSIVE ProcessResponse(_)
RECURSIVE RangeItems(_)
RangeItems(items) ==
    IF items = <<>> THEN NoAcks
    ELSE LET first == ProcessResponse(Head(items)) IN
         IF first.err # ""
         THEN [acks |-> first.acks, err |-> "processing item in container"]
         ELSE LET others == RangeItems(Tail(items)) IN
              [acks |-> first.acks \cup others.acks, err |-> others.err]

ProcessResponse(msg) ==
    LET inner == IF msg.kind = "MessageContainer" THEN RangeItems(msg.items)
                 ELSE IF ReturnsError(msg.kind)
                      THEN [acks |-> {}, err |-> msg.kind]
                      ELSE NoAcks
    IN  IF inner.err # "" THEN inner
        ELSE [acks |-> inner.acks \cup (IF NeedsAck(msg.seq) THEN {msg.id} ELSE {}),
              err |-> ""]

\* the messages of a packet: itself and its items
Flat(msg) == {msg} \cup {msg.items[i] : i \in 1 .. Len(msg.items)}

\* readMsg, lines 446-450: the loop has read a packet and processResponse
\* has returned
LoopProcess(msg) ==
    /\ reads < MaxReads
    /\ reads' = reads + 1
    /\ inbound' = {[id |-> m.id, seq |-> m.seq] : m \in Flat(msg)}
    /\ acked' = acked \cup ProcessResponse(msg).acks
    /\ readErr' = ProcessResponse(msg).err
    /\ UNCHANGED offAck

\* ------------------------------------------------------------------ Spec
Next ==
    \/ Connect
    \/ \E p \in Procs : RcDisconnect(p) \/ RcNewCtx(p)
    \/ \E p \in Procs, failed \in BOOLEAN : RcConnect(p, failed)
    \/ \E c \in Callers : Sleep(c)
    \/ \E c \in Callers, err \in {"", ClosedErr, OtherWriteErr} : SendPacket(c, err)
    \/ \E l \in Ctxs : LoopExit(l) \/ LoopBadMsg(l)
    \/ \E l \in Ctxs, k \in 1 .. lastMessageID, v \in PlainVals \cup FloodVals :
            LoopRpcResult(l, k, v)
    \/ \E l \in Ctxs, c \in Callers : Deliver(l, c)
    \/ \E l \in Ctxs, s \in Salts : LoopBadServerSalt(l, s)
    \/ \E l \in Ctxs, k \in 0 .. lastMessageID : BcastLock(l, k)
    \/ \E l \in Ctxs, c \in Callers, k \in 0 .. lastMessageID : BcastDeliver(l, c, k)
    \/ \E l \in Ctxs, kind \in {"EOF", "required to reconnect!", "reading message"} :
            LoopReadError(l, kind)

Spec == Init /\ [][Next]_vars

\* the sender pool on its own
NextPool ==
    \/ \E n \in Counts : Borrow(n)
    \/ BorrowReturn
    \/ \E i \in Workers, o \in Outcomes : WorkerCreate(i, o) \/ WorkerRetry(i, o)
    \/ \E i \in Workers : WorkerReadReturned(i) \/ WorkerWriteReturned(i)
    \/ \E i \in Workers : WorkerReadSenders(i) \/ WorkerWriteSenders(i)
    \/ WaitDone
    \/ \E o \in Outcomes : SeqCreate(o)

SpecPool == Init /\ [][NextPool]_vars

\* one request on a session whose server answers every packet written, with
\* results, errors and floodwaits, and whose writes may meet a broken pipe
NextFlood ==
    \/ Connect
    \/ \E p \in Procs : RcDisconnect(p) \/ RcNewCtx(p) \/ RcConnect(p, FALSE)
    \/ \E c \in Callers : Sleep(c)
    \/ \E c \in Callers, err \in {"", ClosedErr} : SendPacket(c, err)
    \/ \E l \in Ctxs : LoopExit(l)
    \/ \E l \in Ctxs, k \in 1 .. lastMessageID, v \in PlainVals \cup FloodVals :
            LoopRpcResult(l, k, v)
    \/ \E l \in Ctxs, c \in Callers : Deliver(l, c)

\* the goroutines that can run do run, and the server answers
FloodSpec == Init /\ [][NextFlood]_vars /\ WF_vars(NextFlood)

\* CreateExportedSender on its own
NextSender ==
    \/ \E dc \in DCs : CreateExportedSender(dc)
    \/ \E ok \in BOOLEAN : ExportNewSender(ok) \/ InitialRequest(ok)
    \/ \E o \in {"ok", "error", "nil"} : AuthExportAuthorization(o)
    \/ \E ok \in BOOLEAN : AuthImportAuthorization(ok)
    \/ ShareAuthReturn
    \/ CreateReturn

SpecSender == Init /\ [][NextSender]_vars

\* the pool with its cleaner, the borrows being for one sender or for two
NextClean ==
    \/ \E n \in {1, 2} : Borrow(n)
    \/ BorrowReturn
    \/ \E i \in Workers, o \in Outcomes : WorkerCreate(i, o) \/ WorkerRetry(i, o)
    \/ \E i \in Workers : WorkerReadReturned(i) \/ WorkerWriteReturned(i)
    \/ \E i \in Workers : WorkerReadSenders(i) \/ WorkerWriteSenders(i)
    \/ WaitDone
    \/ \E o \in Outcomes : SeqCreate(o)
    \/ AddNewExportedSenderToMap
    \/ CleanStart
    \/ CleanCheck
    \/ CleanRun
    \/ CleanReturn

SpecClean == Init /\ [][NextClean]_vars

\* the sessions of a client and their backing store
NextStore ==
    \/ \E memOnly \in BOOLEAN, stored \in {0, PrimaryDC} : StartPrimary(memOnly, stored)
    \/ \E a \in DcList, decoded \in BOOLEAN : ImportAuth(a, decoded)
    \/ \E onPrimary \in BOOLEAN, kind \in {"BadServerSalt", "NewSessionCreated"} :
            SaltNotification(onPrimary, kind)
    \/ \E dc \in DcList : ExportSession(dc)
    \/ \E dc \in DcList \cup {NoSuchDC} : ReconnectToNewDC(dc)
    \/ \E ok \in BOOLEAN : MigDelete(ok) \/ MigCreateConnection(ok)
    \/ MigNewMTProto
    \/ MigStop
    \/ SwitchDC

SpecStore == Init /\ [][NextStore]_vars

\* the session with a user that may disconnect or terminate it
NextLoop ==
    \/ Next
    \/ Disconnect
    \/ Terminate
    \/ \E c \in Callers : ReceiveClosed(c)
    \/ \E l \in Ctxs : SendOnClosed(l)

LoopSpec == Init /\ [][NextLoop]_vars

\* a session whose server sends results, salt notifications and containers,
\* and whose user may disconnect it
NextSalt ==
    \/ Connect
    \/ \E p \in Procs : RcDisconnect(p) \/ RcNewCtx(p)
    \/ \E p \in Procs : RcConnect(p, FALSE)
    \/ \E c \in Callers : SendPacket(c, "")
    \/ \E l \in Ctxs : LoopExit(l)
    \/ \E l \in Ctxs, k \in 1 .. lastMessageID : LoopRpcResult(l, k, RpcOk)
    \/ \E l \in Ctxs, c \in Callers : Deliver(l, c)
    \/ \E l \in Ctxs, s \in NewSalts : LoopBadServerSalt(l, s)
    \/ \E l \in Ctxs, k \in 0 .. lastMessageID : BcastLock(l, k)
    \/ \E l \in Ctxs, c \in Callers, k \in 0 .. lastMessageID : BcastDeliver(l, c, k)
    \/ \E l \in Ctxs, s \in NewSalts : LoopNewSessionCreated(l, s)
    \/ \E l \in Ctxs, items \in Containers : LoopContainer(l, items)
    \/ \E l \in Ctxs : LoopContinue(l)
    \/ Disconnect

SaltSpec == Init /\ [][NextSalt]_vars

\* a connected client whose user calls Idle, Stop and Terminate
IdleSteps ==
    \E i \in IdleCallers : IdleSpawn(i) \/ WaiterDone(i) \/ IdleReturn(i)

NextIdle ==
    \/ Connect
    \/ \E l \in Ctxs : LoopExit(l)
    \/ \E i \in IdleCallers : IdleAdd(i) \/ Signal(i)
    \/ IdleSteps
    \/ ClientStop
    \/ ClientTerminate
    \/ CleanCheck

\* the goroutines of Idle run when they can
IdleSpec == Init /\ [][NextIdle]_vars /\ WF_vars(IdleSteps)

\* a session whose transport may give error codes and whose server may send
\* results nobody waits for and updates
NextRecv ==
    \/ Connect
    \/ \E p \in Procs : RcDisconnect(p) \/ RcNewCtx(p)
    \/ \E p \in Procs, failed \in BOOLEAN : RcConnect(p, failed)
    \/ \E c \in Callers, err \in {"", ClosedErr} : SendPacket(c, err)
    \/ \E l \in Ctxs : LoopExit(l)
    \/ \E l \in Ctxs, k \in 1 .. lastMessageID, v \in PlainVals : LoopRpcResult(l, k, v)
    \/ \E l \in Ctxs, c \in Callers : Deliver(l, c)
    \/ \E l \in Ctxs, code \in ErrCodes : LoopErrCode(l, code)
    \/ \E l \in Ctxs, k \in 1 .. lastMessageID + 1, wrErr \in UnknownOutcomes :
            LoopUnknownRpcResult(l, k, wrErr)
    \/ \E l \in Ctxs, u \in Updates : LoopUpdate(l, u)

RecvSpec == Init /\ [][NextRecv]_vars

\* a session that connects without an auth key: the handshake in service
\* mode, then requests, results, salt notifications and updates; its user
\* may disconnect it
NextService ==
    \/ ConnectHandshake
    \/ \E l \in Ctxs, obj \in SvcObjs : LoopServiceRead(l, obj)
    \/ \E l \in Ctxs : ServiceTake(l)
    \/ HandshakeEnd
    \/ \E c \in Callers : SendPacket(c, "")
    \/ \E l \in Ctxs : LoopExit(l)
    \/ \E l \in Ctxs, k \in 1 .. lastMessageID : LoopRpcResult(l, k, RpcOk)
    \/ \E l \in Ctxs, c \in Callers : Deliver(l, c)
    \/ \E l \in Ctxs, s \in Salts : LoopNewSessionCreated(l, s)
    \/ \E l \in Ctxs, u \in Updates : LoopUpdate(l, u)
    \/ Disconnect

ServiceSpec == Init /\ [][NextService]_vars

\* one session: made, its key imported, connected and reconnected
NextKey ==
    \/ \E stored, str \in BOOLEAN : KeyNew(stored, str)
    \/ \E connOk, hsOk \in BOOLEAN : KeyConnect(connOk, hsOk)
    \/ \E connOk, hsOk \in BOOLEAN : KeyReconnect(connOk, hsOk)
    \/ \E decoded, saved \in BOOLEAN : KeyImportAuth(decoded, saved)
    \/ \E connOk, hsOk \in BOOLEAN : KeyImportRawAuth(connOk, hsOk)

KeySpec == Init /\ [][NextKey]_vars

\* a receive loop that reads packets and acknowledges them
NextAck == \E msg \in Packets(reads + 1) : LoopProcess(msg)

AckSpec == Init /\ [][NextAck]_vars

\* ------------------------------------------------------------------ claims
InReconnect(p) == pc[p] \in {"rc_disc", "rc_ctx", "rc_conn"}

\* some caller is blocked in <-resp on mailbox k
AwaitedKey(k) == \E c \in Callers : pc[c] = "await" /\ mb[c] = k

\* a loop blocked for good in the broadcast's channel send: msg_ids are never
\* reused, so a mailbox nobody awaits now is awaited by nobody later
BcastBlocked(l) == pc[l] = "bcast_send" /\ ~AwaitedKey(target[l].key)

\* C1, as claimed: on a BadServerSalt every pending request gets the
\* session-configs-changed sentinel (once) and is re-sent, for any number of
\* successive BadServerSalt events. Stated on the state that denies it: the
\* broadcast is never blocked for good while a caller that was pending when
\* the keys were taken still waits for its sentinel.
C1_EveryPendingGetsSentinel ==
    \A l \in Ctxs : ~(BcastBlocked(l) /\ \E k \in bq[l] : AwaitedKey(k))

\* C2, as claimed: a mailbox is fulfilled exactly once; no value is ever
\* sent to a mailbox whose caller no longer waits on it.
C2_NoDeliveryToAbandonedMailbox ==
    \A l \in Ctxs : target[l].key # NoKey => AwaitedKey(target[l].key)

\* a receive loop that has been started, has not returned, and whose context
\* nobody has cancelled
Running(l) == pc[l] \notin {"none", "exit"} /\ l \notin cancelled

\* C3, as claimed: however the triggers of Reconnect interleave, once no
\* Reconnect is in progress exactly one receive loop runs on the session, and
\* it is the one the stored cancel function stops.
C3_OneLoopAfterReconnects ==
    (stopRoutines # NoCtx /\ isConnected /\ \A p \in Procs : ~InReconnect(p))
        => \A l \in Ctxs : Running(l) => l = stopRoutines

\* C4, as claimed: once the Reconnect that answers a read fault of the
\* receive loop has succeeded, every request that awaited its mailbox at the
\* fault and still does has been written on the new connection.
C4_PendingReissuedAfterFault ==
    (fault.kind = "read" /\ fault.recovered /\ transport # NoCtx)
        => \A k \in fault.keys : AwaitedKey(k) => <<k, transport>> \in written

\* the events of one kind in a caller's history
Count(c, e) == Len(SelectSeq(hist[c], LAMBDA x : x.ev = e))

\* C5, as claimed: a broken-pipe write failure makes makeRequest reconnect
\* and retry once; a second write failure of the request is returned to the
\* caller as an error, with no further reconnect.
C5_SecondWriteFailureReturned ==
    \A c \in Callers :
        Count(c, "wfail") >= 2 =>
            /\ pc[c] = "done"
            /\ result[c].kind = "error"
            /\ Count(c, "reconnect") <= 1

\* a value a mailbox gave that is an RPC error and no floodwait
PlainRpcError(x) ==
    x.ev = "recv" /\ x.val.kind = "rpcerr" /\ x.val.msg # "FLOOD_WAIT_"

\* C6: an RPC error that is no floodwait is returned to the caller as it is:
\* it is the last event of the request (no re-send, no reconnect follows).
C6_RpcErrorReturned ==
    \A c \in Callers : \A i \in 1 .. Len(hist[c]) :
        PlainRpcError(hist[c][i]) =>
            /\ i = Len(hist[c])
            /\ pc[c] = "done"
            /\ result[c] = hist[c][i].val

\* C6's case: a request that was sent and answered with such an error
C6_Witness ==
    \E c \in Callers :
        /\ Len(hist[c]) >= 2
        /\ PlainRpcError(Last(hist[c]))
        /\ hist[c][Len(hist[c]) - 1].ev = "send"

\* a floodwait a mailbox gave
FloodReply(x) == x.ev = "recv" /\ x.val.kind = "rpcerr" /\ x.val.msg = "FLOOD_WAIT_"

\* the seconds the floodwaits of a history advertise, summed
RECURSIVE AdvertisedSeconds(_)
AdvertisedSeconds(h) ==
    IF h = <<>> THEN 0
    ELSE (IF FloodReply(Head(h)) THEN Head(h).val.info ELSE 0)
         + AdvertisedSeconds(Tail(h))

\* every floodwait is slept for, for the seconds it advertises, and followed
\* by a sendPacket under a greater msg_id; what the call returns is the first
\* reply that is no floodwait
FloodWaitHandled(c) ==
    /\ \A i \in 1 .. Len(hist[c]) :
          FloodReply(hist[c][i]) =>
              IF i = Len(hist[c])
              THEN pc[c] \in {"sleep", "send"}
              ELSE /\ hist[c][i + 1].ev \in {"send", "wfail"}
                   /\ hist[c][i + 1].key > hist[c][i].key
    /\ slept[c] = AdvertisedSeconds(hist[c])
                  - (IF pc[c] = "sleep" THEN Last(hist[c]).val.info ELSE 0)
    /\ pc[c] = "done" =>
          /\ Last(hist[c]).ev = "recv"
          /\ ~FloodReply(Last(hist[c]))
          /\ result[c] = Last(hist[c]).val
          /\ \A j \in 1 .. Len(hist[c]) - 1 :
                hist[c][j].ev = "recv" => FloodReply(hist[c][j])

\* C7: on a FLOOD_WAIT_N reply makeRequest sleeps the N seconds and sends the
\* request again under a fresh msg_id, and when the server floods only
\* finitely often (FloodSpec) the call returns, with the server's first reply
\* that is no floodwait.
C7_FloodWaitSleepsResendsReturns ==
    /\ [](\A c \in Callers : FloodWaitHandled(c))
    /\ \A c \in Callers : <>(pc[c] = "done")

\* C7's case: a call that met two floodwaits, of 3 and of 5 seconds, and
\* returned the result that came third
C7_Witness ==
    \E c \in Callers :
        /\ pc[c] = "done"
        /\ result[c] = RpcOk
        /\ Count(c, "recv") = 3
        /\ slept[c] = 8

\* C8, as claimed: once the receive loop is through with a
\* BadMsgNotification, no caller that was pending when it came is still
\* blocked on its mailbox.
C8_BadMsgUnblocksCaller ==
    (fault.kind = "BadMsgNotification" /\ pc[fault.by] \in {"top", "exit"})
        => \A k \in fault.keys : ~AwaitedKey(k)

\* the count the claimed clamping would make of n
Clamp(n) == IF n < 1 THEN 1 ELSE IF n > CountLimit THEN CountLimit ELSE n

\* C9, as claimed: a borrow returns, for every count and every pool, no error
\* and exactly min(max(n, 1), 10) handles, pairwise distinct, none nil.
C9_BorrowReturnsClampedDistinct ==
    bpc = "done" =>
        /\ borrowErr = ""
        /\ Len(returned) = Clamp(countInt)
        /\ \A i \in 1 .. Len(returned) : returned[i] # NilSender
        /\ \A i, j \in 1 .. Len(returned) : i # j => returned[i] # returned[j]

\* C10, as claimed: in either creating branch a creation that failed with an
\* invalid authorization has been tried once more, and a borrow in which the
\* second try failed too returns an error.
C10_AuthInvalidRetriedOnceOrSurfaced ==
    bpc = "done" =>
        /\ "not retried" \notin authLog
        /\ "retry failed" \in authLog => borrowErr # ""

\* C11, as claimed: a sender created for a datacenter other than the
\* primary's is returned as ready only when the authorization was exported
\* on the primary and imported on the sender, and a failure of either step
\* makes the creation return an error.
C11_ReadyOnlyAfterAuthShared ==
    (cs.pc = "done" /\ cs.dc # PrimaryDC) =>
        /\ cs.err = "" => (cs.exported /\ cs.imported)
        /\ cs.shareErr # "" => cs.err # ""

\* C12: when cleanExportedSenders completes, every sender the pool held has
\* been terminated and the pool is empty, also with borrows and additions
\* running beside it; the borrow after it starts from an empty pool and
\* creates its senders.
C12_CleanTerminatesAndEmpties ==
    /\ cleanPc = "done" =>
          /\ senders = <<>>
          /\ cleanSnap \subseteq terminated
    /\ (cleans > 0 /\ cleanPc = "none" /\ bpc = "done" /\ borrowErr = ""
            /\ cleanSnap # {}) =>
          Handles(returned) \cap terminated = {}

\* C12's case: a pool of two senders, cleaned
C12_Witness ==
    /\ cleanPc = "done"
    /\ Cardinality(cleanSnap) = 2

\* C13, as claimed: when ReconnectToNewDC(d) succeeds, the session it
\* returns is at d's address of the table, the old persisted session has
\* been deleted and the old session's routines have been stopped.
C13_MigrationSwitchesEndpoint ==
    (mig.pc = "done" /\ mig.err = "") =>
        /\ mig.cand.addr = mig.dc
        /\ mig.deleted
        /\ prim.stopped


\* C15, as claimed: no session that is memory-only, or that was derived
\* from a memory-only session by migration or by export, ever writes the
\* session to the backing store.
C15_MemoryOnlyNeverWrites == memWrites = {}


\* C14, as claimed: Terminate closes every pending mailbox so that each
\* caller waiting in send returns a Terminated error, and Disconnect leaves
\* the pending mailboxes as they are, none closed and none removed.
C14_TerminateFailsWaitersDisconnectKeeps ==
    /\ [](\A c \in termWaiting :
            (pc[c] = "done" /\ Last(hist[c]).val = NilVal)
                => result[c] = ErrVal("Terminated"))
    /\ [][Disconnect => /\ responseChannels' = responseChannels
                        /\ closedCh' = closedCh]_vars


\* C16: server_salt is the salt carried by the most recent BadServerSalt or
\* NewSessionCreated the receive loop dispatched, items of containers
\* included, and is what it was at startup while there was none: sends,
\* reconnects, disconnects and pings leave it unchanged.
C16_SaltIsLastNotified ==
    serverSalt = IF notified = <<>> THEN 0 ELSE Last(notified)

\* two notifications with different salts have been dispatched, a request
\* has been sent, Disconnect has been called and a loop reads again
C16_Witness ==
    /\ Len(notified) >= 2
    /\ notified[1] # Last(notified)
    /\ \E l \in Ctxs : pc[l] = "top" /\ l \notin cancelled
    /\ \E c \in Callers : NSends(c) > 0
    /\ stops > 0


\* C17, as claimed: once Stop or Terminate has been called on the client, a
\* call of Idle that is blocked, or that is made afterwards, eventually
\* returns (or the process has ended).
C17_IdleReturnsAfterStopOrTerminate ==
    \A i \in IdleCallers :
        (calls # {} /\ idlePc[i] # "none") ~> (idlePc[i] = "returned" \/ crashed)


\* C18, as claimed: on the transport error code 4294966892 (-404) the
\* receive loop runs the handshake and goes on reading without a
\* reconnect; any other transport error code is logged and followed by a
\* reconnect.
C18_ErrCodeHandshakeOrReconnect ==
    \A h \in codeLog :
        IF h.code = AuthKeyExpired
        THEN h.handshake /\ ~h.reconnect
        ELSE h.logged /\ h.reconnect


\* C20, as claimed: an RpcResult whose req_msg_id matches no registered
\* mailbox is offered to the server-request handlers as an unsolicited
\* update, and neither ends the loop's cycle with an error nor makes it
\* reconnect.
C20_UnknownResultOfferedToHandlers ==
    \A h \in unknownLog : h.offered /\ ~h.err /\ ~h.reconnect


\* s is the beginning of t
IsPrefix(s, t) == Len(s) <= Len(t) /\ \A i \in 1 .. Len(s) : s[i] = t[i]

\* C19: while service mode is active, every object the receive loop decodes
\* is handed to the service channel, in the order of arrival (or is being
\* handed by a loop blocked in the send), and none has been delivered to a
\* mailbox, applied to server_salt or offered to a server-request handler.
C19_ServiceModeRoutesToDriver ==
    /\ IsPrefix(serviceChannel, arrived)
    /\ Len(arrived) - Len(serviceChannel)
            = Cardinality({l \in Ctxs : pc[l] = "svc_send"})
    /\ serviceModeActivated =>
        /\ serverSalt = 0
        /\ notified = <<>>
        /\ offered = {}
        /\ answered = {}
        /\ \A l \in Ctxs : pc[l] \in {"none", "top", "svc_send", "exit"}

\* in service mode the driver has been handed the result of a request whose
\* mailbox is registered, and a BadServerSalt
C19_Witness ==
    /\ serviceModeActivated
    /\ \E i \in 1 .. Len(serviceChannel) :
            /\ serviceChannel[i].kind = "RpcResult"
            /\ serviceChannel[i].key \in responseChannels
    /\ \E i \in 1 .. Len(serviceChannel) : serviceChannel[i].kind = "BadServerSalt"


\* C21, as claimed: the handshake runs on a connect or reconnect exactly
\* when the session holds no auth key: never with a key that LoadSession,
\* ImportAuth or ImportRawAuth set.
C21_HandshakeOnlyWithoutKey == handshakes \subseteq {"none"}


\* C23, as claimed: whenever CreateConnection returns an error, it leaves
\* the session not connected and without a reader that it started.
C23_FailedCreateLeavesDisconnected ==
    (created.called /\ created.err # "") =>
        (~created.connected /\ ~created.loop)

\* C26, as claimed: the boolean an import returns is true exactly when the
\* error it returns is nil.
C26_ImportBoolAgreesWithError ==
    imported.by # "none" => (imported.ok <=> imported.err = "")


\* C22, as claimed: every inbound message whose seq_no is odd, whatever its
\* type, alone or in a container, has had a MsgsAck sent for its msg_id
\* once the loop is done with the packet it came in.
C22_OddSeqNoAcknowledged ==
    \A m \in inbound : m.seq % 2 = 1 => m.id \in acked


\* how many times a handle occurs in a list
Occurrences(list, s) == Cardinality({i \in 1 .. Len(list) : list[i] = s})

\* the goroutines of the empty-pool branch have all finished and
\* exportWaitGroup.Wait() is about to return
AllWorkersDone ==
    /\ bpc = "wait"
    /\ \A i \in Workers : wk[i].pc \in {"none", "exit"}

\* C24, as claimed: when the goroutines of a borrow from an empty pool have
\* finished, every sender whose creation succeeded is in the returned list
\* and in the pool, each exactly once, whatever the interleaving. (The pool
\* was empty when the borrow began, so no sender had been created before
\* it: the senders created are those numbered below nextSender.)
C24_NoCreatedSenderLost ==
    AllWorkersDone =>
        \A s \in 1 .. nextSender - 1 :
            /\ Occurrences(returned, s) = 1
            /\ Occurrences(senders, s) = 1

\* C25, as claimed: no nil handle is ever in the pool or in the list a
\* borrow returns; a creation that failed appends nothing.
C25_NoNilHandleInPool ==
    /\ \A i \in 1 .. Len(senders) : senders[i] # NilSender
    /\ bpc = "done" => \A i \in 1 .. Len(returned) : returned[i] # NilSender


\* C27: a ReconnectToNewDC with a datacenter id that is not in the endpoint
\* table returns at once with an error and changes nothing: the persisted
\* session stays, the old session (its receive loop with it) is as it was,
\* and no new session has been made.
C27_InvalidDCChangesNothing ==
    [][(mig.pc = "idle" /\ mig'.pc # "idle" /\ mig'.dc \notin DCs) =>
            /\ mig'.pc = "done"
            /\ mig'.err # ""
            /\ ~mig'.deleted
            /\ mig'.cand = NoSess
            /\ store' = store
            /\ prim' = prim
            /\ xs' = xs]_vars

\* an invalid id has been refused while a session was persisted and the
\* primary's routines were running
C27_Witness ==
    /\ mig.pc = "done"
    /\ mig.dc = NoSuchDC
    /\ mig.err = "invalid DC"
    /\ store # 0
    /\ prim.live
    /\ ~prim.stopped

====
